---- MODULE Spec2Model ----
(***************************************************************************)
(* Model of the FakeClock of clock.go: the virtual time engine, the timer  *)
(* handles it schedules and the deadline contexts it drives.               *)
(*                                                                         *)
(* Virtual time is an integer.  Every exported operation is run by a       *)
(* process.  Lock(), the critical section and the deferred Unlock() are    *)
(* one step: nothing else can read or write the clock's fields in between. *)
(* The one place a critical section can wait is fire()'s channel send; a   *)
(* process that reaches a full channel parks in stage "send", still        *)
(* holding the mutex, and goes on from there in the Send step.  Channel    *)
(* consumers, dispatched callbacks and context watchers are goroutines of  *)
(* their own and take their steps without the mutex.                       *)
(***************************************************************************)
EXTENDS Integers, Sequences, FiniteSets, TLC

\* ---------------------------------------------------------------- bounds
MaxTimers == 2      \* handles created overall
MaxNow == 3         \* virtual time never advanced beyond this
MaxD == 2           \* largest duration argument
NegD == 1           \* durations range over -NegD .. MaxD
MaxResets == 1      \* Reset calls overall
MaxCtx == 1         \* deadline contexts created overall
NThreads == 2       \* caller goroutines
StopCap == 2        \* Stop calls per handle are counted up to this
MaxCancels == 2     \* calls of one context's cancel function
MaxParentDeadline == 1  \* deadlines of the standard-library parents

ChanCap == 1        \* make(chan time.Time, 1)

Durations == (0 - NegD)..MaxD
Threads == 1..NThreads
TimerIds == 1..MaxTimers
CtxIds == 1..MaxCtx
\* the watcher goroutine of context c is process NThreads + c
Watcher(c) == NThreads + c
Procs == 1..(NThreads + MaxCtx)

VARIABLES
    now,            \* FakeClock.now
    pendingTimers,  \* FakeClock.pendingTimers: the handles in Less order
    nextID,         \* FakeClock.nextID
    mux,            \* FakeClock.mux: 0 when free, else the holding process
    trigger,        \* FakeTimer.trigger, per handle id
    fn,             \* FakeTimer.fn, per handle id: "nil", "user" or "ctx"
    c,              \* FakeTimer.c, per handle id: the channel's buffer
    spawned,        \* per handle id: goroutines started by `go f.fn()` not yet run
    pc,             \* per process: the operation it is in and its locals
    ctx,            \* per context id: the FakeDeadlineContext and its goroutines
    nctx,           \* contexts created so far
    stdErr,         \* per standard-library parent context: its Err()
    panicked,       \* some Advance call has panicked
    fired,          \* the handles the latest clock operation fired, in order
    hist            \* per handle id: what has happened to it (history only)

vars == <<now, pendingTimers, nextID, mux, trigger, fn, c, spawned, pc, ctx,
          nctx, stdErr, panicked, fired, hist>>

\* ------------------------------------------------------------ time.Time
After(a, b) == a > b
Before(a, b) == a < b

\* ------------------------------------------------------- FakeTimer.Less
\* trig is the trigger field of every handle at the moment of the comparison
\* (variant: the tie-break reversed)
LessIdDescending(trig, f, rhs) ==
    IF Before(trig[f], trig[rhs]) THEN TRUE
    ELSE IF After(trig[f], trig[rhs]) THEN FALSE
    ELSE f > rhs

Less(trig, f, rhs) ==
    IF Before(trig[f], trig[rhs]) THEN TRUE
    ELSE IF After(trig[f], trig[rhs]) THEN FALSE
    ELSE f < rhs

\* ------------------------------------- persistent.SetEx[*FakeTimer]
\* The ordered set is the sequence of its members in Less order.
Members(s) == {s[i] : i \in 1..Len(s)}

\* a member equal to t under the order (neither is less than the other)
Contains(trig, s, t) ==
    \E i \in 1..Len(s) : ~Less(trig, s[i], t) /\ ~Less(trig, t, s[i])

Add(trig, s, t) ==
    IF Contains(trig, s, t) THEN s
    ELSE LET k == Cardinality({i \in 1..Len(s) : Less(trig, s[i], t)})
         IN  SubSeq(s, 1, k) \o <<t>> \o SubSeq(s, k + 1, Len(s))

Remove(trig, s, t) ==
    SelectSeq(s, LAMBDA x : Less(trig, x, t) \/ Less(trig, t, x))

\* GetKthElement(0): ok, and the first member
HasKthElement0(s) == Len(s) > 0
GetKthElement0(s) == s[1]

\* ------------------------------------------------- context.Context
\* The parent handed to WithTimeout: context.Background(), a context made by
\* context.WithCancel, a context made by context.WithDeadline (one per
\* deadline), or a FakeDeadlineContext made earlier (its id).
Background == 0
StdCancel == -1
StdDeadline(p) == 0 - (1 + p)
StdParents == {StdCancel} \cup {StdDeadline(p) : p \in 1..MaxParentDeadline}
Parents == {Background} \cup StdParents \cup (1..nctx)

\* FakeDeadlineContext.Err: the stored error once done is closed
Err(k) == IF ctx[k].done THEN ctx[k].err ELSE "nil"

\* parent.Done() is closed
ParentDone(pa) ==
    IF pa = Background THEN FALSE
    ELSE IF pa \in StdParents THEN stdErr[pa] # "nil"
    ELSE ctx[pa].done

\* parent.Err()
ParentErr(pa) ==
    IF pa = Background THEN "nil"
    ELSE IF pa \in StdParents THEN stdErr[pa]
    ELSE Err(pa)

\* ------------------------------------------------------------ processes
\* (pend is history: Err() was nil when a cancel function was entered)
Idle == [op |-> "idle", st |-> "idle", h |-> 0, cx |-> 0, e |-> "nil",
         pend |-> FALSE]

\* What has happened to a handle (history, read by no operation but the
\* MaxResets guard): pos, the duration of its latest scheduling (creation
\* or Reset) was > 0; emptyAtSched, its channel was empty then; ret, what
\* its latest Reset returned; resets, fires, stopTrue, the Reset calls, the
\* fire() calls and the Stop calls that returned true; firesSince,
\* stopTrueSince and stops (counted up to StopCap), the fire() calls, the
\* true Stop calls and all Stop calls since its latest scheduling.
HistInit == [pos |-> FALSE, emptyAtSched |-> TRUE, ret |-> FALSE,
             resets |-> 0, fires |-> 0, stopTrue |-> 0,
             firesSince |-> 0, stopTrueSince |-> 0, stops |-> 0]

\* A FakeDeadlineContext: parent, deadline, err and done are its fields;
\* timer is the internal handle (0 when WithTimeout made none) and cb the
\* position of that handle's callback goroutine.  History only: closes, the
\* close(done) calls; cancels, the calls of its cancel function; pfirst, its
\* parent was already resolved when its internal handle fired.
CtxInit == [parent |-> 0, deadline |-> 0, err |-> "nil", done |-> FALSE,
            closes |-> 0, timer |-> 0, cb |-> "none", cancels |-> 0,
            pfirst |-> FALSE]

Created(h) == h \in 1..nextID

RECURSIVE SumResets(_)
SumResets(n) == IF n = 0 THEN 0 ELSE hist[n].resets + SumResets(n - 1)

\* sync.Mutex: Lock() returns only when nobody holds the mutex
MuxFree == mux = 0

\* Caller goroutines are interchangeable: a new call is made by the first one
\* that is not inside a call.
Caller(t) ==
    /\ pc[t].op = "idle"
    /\ \A u \in Threads : u < t => pc[u].op # "idle"

Init ==
    /\ now = 0
    /\ pendingTimers = <<>>
    /\ nextID = 0
    /\ mux = 0
    /\ trigger = [h \in TimerIds |-> 0]
    /\ fn = [h \in TimerIds |-> "nil"]
    /\ c = [h \in TimerIds |-> <<>>]
    /\ spawned = [h \in TimerIds |-> 0]
    /\ pc = [p \in Procs |-> Idle]
    /\ ctx = [k \in CtxIds |-> CtxInit]
    /\ nctx = 0
    /\ stdErr = [pa \in StdParents |-> "nil"]
    /\ panicked = FALSE
    /\ fired = <<>>
    /\ hist = [h \in TimerIds |-> HistInit]

\* ------------------------------------------------- critical sections
\* What a critical section has made of the clock so far: the fields it may
\* write, the handles it has fired in order, and the handle whose channel
\* send it is waiting on (0 when none).
Here == [now |-> now, s |-> pendingTimers, trigger |-> trigger, fn |-> fn,
         c |-> c, spawned |-> spawned, ctx |-> ctx, hist |-> hist,
         fired |-> <<>>, blocked |-> 0]

\* ------------------------------------------------------ FakeTimer.fire
\* fire() of handle t: a callback-mode handle starts a goroutine
\* (`go f.fn()`); a hand-off-mode handle sends its trigger on the channel,
\* which waits while the buffer is full.
fire(r, t) ==
    LET r1 == [r EXCEPT !.hist[t].fires = @ + 1, !.hist[t].firesSince = @ + 1,
                        !.fired = Append(@, t)]
    IN  IF r.fn[t] = "user" THEN [r1 EXCEPT !.spawned[t] = @ + 1]
        ELSE IF r.fn[t] = "ctx"
        THEN [r1 EXCEPT !.ctx = [k \in CtxIds |->
                            IF r.ctx[k].timer = t
                            THEN [r.ctx[k] EXCEPT
                                    !.cb = "cas",
                                    !.pfirst = ParentDone(r.ctx[k].parent)]
                            ELSE r.ctx[k]]]
        ELSE IF Len(r.c[t]) < ChanCap
        THEN [r1 EXCEPT !.c[t] = Append(@, r.trigger[t])]
        ELSE [r1 EXCEPT !.blocked = t]

\* ------------------------------------------------- FakeClock.addTimer
\* !t.trigger.After(f.now)
\* (variant: the negation dropped)
DueInverted(r, t) == After(r.trigger[t], r.now)
Due(r, t) == ~After(r.trigger[t], r.now)

\* (variant: a handle that is due is fired and inserted all the same)
addTimerAlsoAdds(r, t) ==
    IF Due(r, t) THEN [fire(r, t) EXCEPT !.s = Add(r.trigger, r.s, t)]
    ELSE [r EXCEPT !.s = Add(r.trigger, r.s, t)]

addTimer(r, t) ==
    IF Due(r, t) THEN fire(r, t)
    ELSE [r EXCEPT !.s = Add(r.trigger, r.s, t)]

\* The critical section of process p's operation op ends in r: the fields
\* are written back, and p either returns (the deferred Unlock) or is left
\* waiting in fire()'s send with the mutex held.
Commit(p, op, r) ==
    /\ now' = r.now
    /\ pendingTimers' = r.s
    /\ trigger' = r.trigger
    /\ fn' = r.fn
    /\ c' = r.c
    /\ spawned' = r.spawned
    /\ hist' = r.hist
    /\ fired' = r.fired
    /\ mux' = IF r.blocked # 0 THEN p ELSE 0

Parked(op, r) == [Idle EXCEPT !.op = op, !.st = "send", !.h = r.blocked]

\* ------------------------------------------------------ FakeClock.Now
\* what Now() returns (it takes the mutex and reads f.now)
Now == now

\* ------------------------------------------------- FakeClock.NewTimer
NewTimer(t, d) ==
    /\ Caller(t)
    /\ MuxFree
    /\ nextID < MaxTimers
    /\ LET id == nextID + 1
           r == addTimer([Here EXCEPT !.trigger[id] = now + d,
                                      !.fn[id] = "nil", !.c[id] = <<>>,
                                      !.hist[id] = [HistInit EXCEPT !.pos = (d > 0)]],
                         id)
       IN /\ nextID' = id
          /\ Commit(t, "NewTimer", r)
          /\ pc' = [pc EXCEPT ![t] = IF r.blocked # 0
                                     THEN Parked("NewTimer", r) ELSE Idle]
    /\ UNCHANGED <<ctx, nctx, stdErr, panicked>>

\* ----------------------------------- FakeClock.AfterFunc / afterFunc
AfterFunc(t, d) ==
    /\ Caller(t)
    /\ MuxFree
    /\ nextID < MaxTimers
    /\ LET id == nextID + 1
           r == addTimer([Here EXCEPT !.trigger[id] = now + d,
                                      !.fn[id] = "user",
                                      !.hist[id] = [HistInit EXCEPT !.pos = (d > 0)]],
                         id)
       IN /\ nextID' = id
          /\ Commit(t, "AfterFunc", r)
          /\ pc' = [pc EXCEPT ![t] = IF r.blocked # 0
                                     THEN Parked("AfterFunc", r) ELSE Idle]
    /\ UNCHANGED <<ctx, nctx, stdErr, panicked>>

\* ------------------------------------------------------ FakeTimer.Stop
\* Stop()'s return value
\* (variant: true whether or not the handle is registered)
StopReturnsTrue(h) == TRUE
StopReturns(h) == Contains(trigger, pendingTimers, h)

\* the registry Stop() leaves
\* (variant: the result of Remove is dropped)
AfterStopKept(h) == pendingTimers
AfterStop(h) ==
    IF Contains(trigger, pendingTimers, h)
    THEN Remove(trigger, pendingTimers, h)
    ELSE pendingTimers

\* The whole of Stop() on handle h (it cannot wait), with its return value
\* recorded in the handle's history.
StopBody(h) ==
    /\ MuxFree
    /\ LET ret == StopReturns(h) IN
        /\ pendingTimers' = AfterStop(h)
        /\ hist' = [hist EXCEPT ![h].stops = IF @ < StopCap THEN @ + 1 ELSE @,
                                ![h].stopTrue = IF ret THEN @ + 1 ELSE @,
                                ![h].stopTrueSince = IF ret THEN @ + 1 ELSE @]
    /\ fired' = <<>>
    /\ UNCHANGED <<now, nextID, mux, trigger, fn, c, spawned, ctx, nctx,
                   stdErr, panicked>>

\* a caller holds only the handles NewTimer and AfterFunc returned
UserHandle(h) == Created(h) /\ fn[h] # "ctx"

Stop(t, h) ==
    /\ Caller(t)
    /\ UserHandle(h)
    /\ StopBody(h)
    /\ pc' = pc

\* ----------------------------------------------------- FakeTimer.Reset
\* f.trigger = f.clock.now.Add(d)
\* (variant: d is added to the old trigger)
ResetTriggerFromOld(h, d) == trigger[h] + d
ResetTrigger(h, d) == now + d

Reset(t, h, d) ==
    /\ Caller(t)
    /\ UserHandle(h)
    /\ SumResets(MaxTimers) < MaxResets
    /\ MuxFree
    /\ LET ret == Contains(trigger, pendingTimers, h)
           s == IF ret THEN Remove(trigger, pendingTimers, h)
                ELSE pendingTimers
           r == addTimer([Here EXCEPT
                            !.s = s,
                            !.trigger[h] = ResetTrigger(h, d),
                            !.hist[h] = [@ EXCEPT !.pos = (d > 0),
                                            !.emptyAtSched = (c[h] = <<>>),
                                            !.ret = ret,
                                            !.resets = @ + 1,
                                            !.firesSince = 0,
                                            !.stopTrueSince = 0,
                                            !.stops = 0]],
                         h)
       IN /\ Commit(t, "Reset", r)
          /\ pc' = [pc EXCEPT ![t] = IF r.blocked # 0
                                     THEN Parked("Reset", r) ELSE Idle]
    /\ UNCHANGED <<nextID, ctx, nctx, stdErr, panicked>>

\* --------------------------------------------------- FakeClock.Advance
\* f.now once the d < 0 check has been passed or has panicked
\* (variant: f.now is moved before the check)
NowAddedBeforeCheck(d) == now + d
NowAfterCheck(d) == IF d < 0 THEN now ELSE now + d

\* the loop condition on the first handle: !timer.trigger.After(f.now)
\* (variant: a handle due exactly now is left pending)
ExpiredStrictly(r, timer) == Before(r.trigger[timer], r.now)
Expired(r, timer) == ~After(r.trigger[timer], r.now)

\* the loop: while the first handle of the registry is due, Remove it and
\* fire it; stops early where fire() has to wait
RECURSIVE AdvanceLoop(_)
AdvanceLoop(r) ==
    IF /\ r.blocked = 0
       /\ HasKthElement0(r.s)
       /\ Expired(r, GetKthElement0(r.s))
    THEN LET timer == GetKthElement0(r.s)
         IN  AdvanceLoop(fire([r EXCEPT !.s = Remove(r.trigger, r.s, timer)],
                              timer))
    ELSE r

Advance(t, d) ==
    /\ Caller(t)
    /\ MuxFree
    /\ now + d <= MaxNow
    /\ IF d < 0
       THEN \* panic("time cannot move backwards"); the deferred Unlock runs
            /\ now' = NowAfterCheck(d)
            /\ panicked' = TRUE
            /\ fired' = <<>>
            /\ UNCHANGED <<pendingTimers, nextID, mux, trigger, fn, c, spawned,
                           pc, ctx, nctx, stdErr, hist>>
       ELSE LET r == AdvanceLoop([Here EXCEPT !.now = NowAfterCheck(d)])
            IN /\ Commit(t, "Advance", r)
               /\ ctx' = r.ctx
               /\ pc' = [pc EXCEPT ![t] = IF r.blocked # 0
                                          THEN Parked("Advance", r) ELSE Idle]
               /\ UNCHANGED <<nextID, nctx, stdErr, panicked>>

\* fire()'s `f.c <- f.trigger` gets through once the buffer has room; the
\* operation then runs on to its end, or to the next send that has to wait
Send(p) ==
    /\ pc[p].st = "send"
    /\ Len(c[pc[p].h]) < ChanCap
    /\ LET h == pc[p].h
           sent == [Here EXCEPT !.c[h] = Append(@, trigger[h]), !.fired = fired]
           r == IF pc[p].op = "Advance" THEN AdvanceLoop(sent) ELSE sent
       IN /\ Commit(p, pc[p].op, r)
          /\ ctx' = r.ctx
          /\ pc' = [pc EXCEPT ![p] = IF r.blocked # 0
                                     THEN Parked(pc[p].op, r) ELSE Idle]
    /\ UNCHANGED <<nextID, nctx, stdErr, panicked>>

\* a consumer receives from timer.C()
Drain(h) ==
    /\ Created(h)
    /\ c[h] # <<>>
    /\ c' = [c EXCEPT ![h] = Tail(@)]
    /\ UNCHANGED <<now, pendingTimers, nextID, mux, trigger, fn, spawned, pc,
                   ctx, nctx, stdErr, panicked, fired, hist>>

\* a goroutine started by `go f.fn()` runs the caller's callback
RunCallback(h) ==
    /\ spawned[h] > 0
    /\ spawned' = [spawned EXCEPT ![h] = @ - 1]
    /\ UNCHANGED <<now, pendingTimers, nextID, mux, trigger, fn, c, pc, ctx,
                   nctx, stdErr, panicked, fired, hist>>

\* ------------------------------------------------- context.Context
\* ------------------------------------- FakeDeadlineContext.Deadline
\* ctx.Context.Deadline() of parent pa
RECURSIVE ParentDeadline(_)
\* (variant: the later of the two deadlines is returned)
DeadlineLater(k) ==
    LET parentDeadline == ParentDeadline(ctx[k].parent)
    IN  IF parentDeadline.ok /\ Before(ctx[k].deadline, parentDeadline.deadline)
        THEN [deadline |-> parentDeadline.deadline, ok |-> TRUE]
        ELSE [deadline |-> ctx[k].deadline, ok |-> TRUE]

Deadline(k) ==
    LET parentDeadline == ParentDeadline(ctx[k].parent)
    IN  IF parentDeadline.ok /\ After(ctx[k].deadline, parentDeadline.deadline)
        THEN [deadline |-> parentDeadline.deadline, ok |-> TRUE]
        ELSE [deadline |-> ctx[k].deadline, ok |-> TRUE]

ParentDeadline(pa) ==
    IF pa \in {Background, StdCancel} THEN [deadline |-> 0, ok |-> FALSE]
    ELSE IF pa \in StdParents THEN [deadline |-> 0 - pa - 1, ok |-> TRUE]
    ELSE Deadline(pa)

\* the caller of a standard-library parent's cancel function
ParentCancel(pa) ==
    /\ stdErr[pa] = "nil"
    /\ stdErr' = [stdErr EXCEPT ![pa] = "Canceled"]
    /\ UNCHANGED <<now, pendingTimers, nextID, mux, trigger, fn, c, spawned,
                   pc, ctx, nctx, panicked, fired, hist>>

\* the real-time deadline of a context.WithDeadline parent passes
ParentExpire(pa) ==
    /\ pa # StdCancel
    /\ stdErr[pa] = "nil"
    /\ stdErr' = [stdErr EXCEPT ![pa] = "DeadlineExceeded"]
    /\ UNCHANGED <<now, pendingTimers, nextID, mux, trigger, fn, c, spawned,
                   pc, ctx, nctx, panicked, fired, hist>>

\* ------------------------------- FakeDeadlineContext.setErrorOnce
\* ctx.err.CompareAndSwap(nil, &err) succeeds
\* (variant: a plain store, which always succeeds)
CompareAndSwapAlways(cur) == TRUE
CompareAndSwap(cur) == cur = "nil"

\* setErrorOnce on a context no other goroutine can reach yet
\* (variant: the error stored is always Canceled)
ResolvedCanceled(cx, e) ==
    IF CompareAndSwap(cx.err)
    THEN [cx EXCEPT !.err = "Canceled", !.done = TRUE, !.closes = @ + 1]
    ELSE cx

Resolved(cx, e) ==
    IF CompareAndSwap(cx.err)
    THEN [cx EXCEPT !.err = e, !.done = TRUE, !.closes = @ + 1]
    ELSE cx

\* where a process goes when its setErrorOnce call returns
Finished(p) == IF pc[p].op = "watch" THEN [pc[p] EXCEPT !.st = "exit"] ELSE Idle

\* setErrorOnce by a cancel function or a watcher: the compare-and-swap
SetErrorCAS(p) ==
    /\ pc[p].st = "cas"
    /\ LET k == pc[p].cx
           e == IF pc[p].op = "watch" THEN ParentErr(ctx[k].parent)
                ELSE pc[p].e
       IN IF CompareAndSwap(ctx[k].err)
          THEN /\ ctx' = [ctx EXCEPT ![k].err = e]
               /\ pc' = [pc EXCEPT ![p].st = "close"]
          ELSE /\ ctx' = ctx
               /\ pc' = [pc EXCEPT ![p] = Finished(p)]
    /\ UNCHANGED <<now, pendingTimers, nextID, mux, trigger, fn, c, spawned,
                   nctx, stdErr, panicked, fired, hist>>

\* ... and close(ctx.done)
SetErrorClose(p) ==
    /\ pc[p].st = "close"
    /\ ctx' = [ctx EXCEPT ![pc[p].cx].done = TRUE,
                          ![pc[p].cx].closes = @ + 1]
    /\ pc' = [pc EXCEPT ![p] = Finished(p)]
    /\ UNCHANGED <<now, pendingTimers, nextID, mux, trigger, fn, c, spawned,
                   nctx, stdErr, panicked, fired, hist>>

\* the goroutine of the internal timer's callback:
\* ctx.setErrorOnce(context.DeadlineExceeded)
CallbackCAS(k) ==
    /\ ctx[k].cb = "cas"
    /\ ctx' = [ctx EXCEPT ![k] =
                IF CompareAndSwap(ctx[k].err)
                THEN [@ EXCEPT !.err = "DeadlineExceeded", !.cb = "close"]
                ELSE [@ EXCEPT !.cb = "exit"]]
    /\ UNCHANGED <<now, pendingTimers, nextID, mux, trigger, fn, c, spawned,
                   pc, nctx, stdErr, panicked, fired, hist>>

CallbackClose(k) ==
    /\ ctx[k].cb = "close"
    /\ ctx' = [ctx EXCEPT ![k].done = TRUE, ![k].closes = @ + 1,
                          ![k].cb = "exit"]
    /\ UNCHANGED <<now, pendingTimers, nextID, mux, trigger, fn, c, spawned,
                   pc, nctx, stdErr, panicked, fired, hist>>

\* ----------------------------------------------- FakeClock.WithTimeout
\* if d <= 0: the deadline is already in the past
\* (variant: a deadline exactly now is not in the past)
AlreadyPastStrict(d) == d < 0
AlreadyPast(d) == d <= 0

WithTimeout(t, parent, d) ==
    /\ Caller(t)
    /\ MuxFree
    /\ nctx < MaxCtx
    /\ nctx' = nctx + 1
    /\ LET k == nctx + 1
           new == [CtxInit EXCEPT !.parent = parent, !.deadline = now + d]
       IN
        IF AlreadyPast(d)
        THEN /\ ctx' = [ctx EXCEPT ![k] = Resolved(new, "DeadlineExceeded")]
             /\ fired' = <<>>
             /\ UNCHANGED <<now, pendingTimers, nextID, mux, trigger, fn, c,
                            spawned, pc, hist>>
        ELSE IF ParentDone(parent)
        THEN /\ ctx' = [ctx EXCEPT ![k] = Resolved(new, ParentErr(parent))]
             /\ fired' = <<>>
             /\ UNCHANGED <<now, pendingTimers, nextID, mux, trigger, fn, c,
                            spawned, pc, hist>>
        ELSE LET id == nextID + 1
                 \* timer := f.afterFunc(d, func() { ctx.setErrorOnce(...) })
                 r == addTimer([Here EXCEPT
                                  !.trigger[id] = now + d,
                                  !.fn[id] = "ctx",
                                  !.hist[id] = [HistInit EXCEPT !.pos = (d > 0)],
                                  !.ctx[k] = [new EXCEPT !.timer = id]],
                               id)
             IN /\ nextID < MaxTimers
                /\ nextID' = id
                /\ Commit(t, "WithTimeout", r)
                /\ ctx' = r.ctx
                \* go func() { select { ... } }()
                /\ pc' = [pc EXCEPT ![Watcher(k)] =
                            [Idle EXCEPT !.op = "watch", !.st = "select",
                                         !.h = id, !.cx = k]]
    /\ UNCHANGED <<stdErr, panicked>>

\* the cancel function WithTimeout returned for a context with a timer:
\* timer.Stop(), then ctx.setErrorOnce(context.Canceled)
Cancel(t, k) ==
    /\ Caller(t)
    /\ k \in 1..nctx
    /\ ctx[k].timer # 0
    /\ ctx[k].cancels < MaxCancels
    /\ MuxFree
    /\ LET h == ctx[k].timer
           ret == StopReturns(h) IN
        /\ pendingTimers' = AfterStop(h)
        /\ hist' = [hist EXCEPT ![h].stops = IF @ < StopCap THEN @ + 1 ELSE @,
                                ![h].stopTrue = IF ret THEN @ + 1 ELSE @,
                                ![h].stopTrueSince = IF ret THEN @ + 1 ELSE @]
    /\ fired' = <<>>
    /\ ctx' = [ctx EXCEPT ![k].cancels = @ + 1]
    /\ pc' = [pc EXCEPT ![t] = [Idle EXCEPT !.op = "cancel", !.st = "cas",
                                            !.cx = k, !.e = "Canceled",
                                            !.pend = (Err(k) = "nil")]]
    /\ UNCHANGED <<now, nextID, mux, trigger, fn, c, spawned, nctx, stdErr,
                   panicked>>

\* the cancel function WithTimeout returned for a context it had resolved
\* itself: func() {}
CancelResolved(t, k) ==
    /\ Caller(t)
    /\ k \in 1..nctx
    /\ ctx[k].timer = 0
    /\ ctx[k].cancels < MaxCancels
    /\ ctx' = [ctx EXCEPT ![k].cancels = @ + 1]
    /\ fired' = <<>>
    /\ UNCHANGED <<now, pendingTimers, nextID, mux, trigger, fn, c, spawned,
                   pc, nctx, stdErr, panicked, hist>>

\* the watcher goroutine's select: case <-ctx.done is ready
\* (variant: the select has no such case)
OwnDoneNever(k) == FALSE
OwnDoneReady(k) == ctx[k].done

WatchOwnDone(k) ==
    /\ pc[Watcher(k)].op = "watch"
    /\ pc[Watcher(k)].st = "select"
    /\ OwnDoneReady(k)
    /\ pc' = [pc EXCEPT ![Watcher(k)].st = "exit"]
    /\ UNCHANGED <<now, pendingTimers, nextID, mux, trigger, fn, c, spawned,
                   ctx, nctx, stdErr, panicked, fired, hist>>

\* case <-parent.Done()
WatchParentDone(k) ==
    /\ pc[Watcher(k)].op = "watch"
    /\ pc[Watcher(k)].st = "select"
    /\ ParentDone(ctx[k].parent)
    /\ pc' = [pc EXCEPT ![Watcher(k)].st = "lock"]
    /\ UNCHANGED <<now, pendingTimers, nextID, mux, trigger, fn, c, spawned,
                   ctx, nctx, stdErr, panicked, fired, hist>>

\* ... timer.Stop(), which has to get the mutex
WatchStop(k) ==
    /\ pc[Watcher(k)].op = "watch"
    /\ pc[Watcher(k)].st = "lock"
    /\ StopBody(ctx[k].timer)
    /\ pc' = [pc EXCEPT ![Watcher(k)].st = "cas"]

\* ------------------------------------------------------ specifications
\* The timer engine driven by its callers: NewTimer, AfterFunc, Stop, Reset
\* and Advance, with the consumers of the channels and the callbacks.
Next ==
    \/ \E t \in Threads, d \in Durations : NewTimer(t, d)
    \/ \E t \in Threads, d \in Durations : AfterFunc(t, d)
    \/ \E t \in Threads, h \in TimerIds : Stop(t, h)
    \/ \E t \in Threads, h \in TimerIds, d \in Durations : Reset(t, h, d)
    \/ \E t \in Threads, d \in Durations : Advance(t, d)
    \/ \E p \in Procs : Send(p)
    \/ \E h \in TimerIds : Drain(h)
    \/ \E h \in TimerIds : RunCallback(h)

Spec == Init /\ [][Next]_vars

\* The deadline contexts: WithTimeout, the cancel functions, the parent's
\* cancellation, Advance, and the goroutines WithTimeout and fire() start.
NextCtx ==
    \/ \E t \in Threads, pa \in Parents, d \in Durations : WithTimeout(t, pa, d)
    \/ \E t \in Threads, k \in CtxIds : Cancel(t, k)
    \/ \E t \in Threads, k \in CtxIds : CancelResolved(t, k)
    \/ \E t \in Threads, d \in Durations : Advance(t, d)
    \/ \E p \in Procs : SetErrorCAS(p)
    \/ \E p \in Procs : SetErrorClose(p)
    \/ \E k \in CtxIds : CallbackCAS(k)
    \/ \E k \in CtxIds : CallbackClose(k)
    \/ \E k \in CtxIds : WatchOwnDone(k)
    \/ \E k \in CtxIds : WatchParentDone(k)
    \/ \E k \in CtxIds : WatchStop(k)
    \/ \E pa \in StdParents : ParentCancel(pa)
    \/ \E pa \in StdParents : ParentExpire(pa)

SpecCtx == Init /\ [][NextCtx]_vars

\* ... where a goroutine started by `go f.fn()` gets to run: the Go scheduler
\* runs every runnable goroutine, and setErrorOnce waits for nothing.
SpecCtxCallbackFair ==
    /\ SpecCtx
    /\ \A k \in CtxIds : WF_vars(CallbackCAS(k)) /\ WF_vars(CallbackClose(k))

\* ... where the watcher goroutine gets to run whenever it can: its select
\* once a case is ready, its timer.Stop() (the mutex is held only for the
\* length of a critical section) and its setErrorOnce.
SpecCtxWatcherFair ==
    /\ SpecCtx
    /\ \A k \in CtxIds :
        /\ WF_vars(WatchOwnDone(k) \/ WatchParentDone(k))
        /\ WF_vars(WatchStop(k))
        /\ WF_vars(SetErrorCAS(Watcher(k)))
        /\ WF_vars(SetErrorClose(Watcher(k)))

\* ================================================================ claims
Handles == 1..nextID

\* a fire order is ascending in (trigger, id)
Ascending(order) ==
    \A i, j \in 1..Len(order) :
        i < j => \/ trigger[order[i]] < trigger[order[j]]
                 \/ /\ trigger[order[i]] = trigger[order[j]]
                    /\ order[i] < order[j]

\* C1: an Advance call removes and fires, in ascending (trigger, id) order,
\* the pending handles whose trigger is <= the new now: the handles it has
\* fired are at every moment in that order and among the due ones, and when
\* it returns they are exactly the due ones and the rest is still pending
\* (also when it returns after waiting in a channel send).
C1_AdvanceFiresInOrder ==
    [][/\ Ascending(fired)'
       /\ \A t \in Threads, d \in Durations :
            (d >= 0 /\ now' = now + d /\ Advance(t, d)) =>
                LET due == {h \in Members(pendingTimers) :
                                trigger[h] <= now + d}
                IN /\ Members(fired') \subseteq due
                   /\ Len(fired') = Cardinality(Members(fired'))
                   /\ mux' = 0 =>
                        /\ Members(fired') = due
                        /\ Members(pendingTimers') =
                                Members(pendingTimers) \ due
       /\ \A p \in Threads :
            (pc[p].op = "Advance" /\ pc'[p].op = "idle") =>
                \A h \in Members(pendingTimers') : trigger[h] > now]_vars

\* two handles of different modes due at the same instant, fired by one
\* Advance in creation order
C1_Witness ==
    /\ Len(fired) = 2
    /\ trigger[fired[1]] = trigger[fired[2]]
    /\ fn[fired[1]] # fn[fired[2]]
    /\ mux = 0
    /\ now > 0

\* C2: a handle created with d > 0 and never reset is not fired while
\* now < T + d, is fired at most once, and, unless a Stop removed it, has
\* been fired exactly once whenever an Advance that brought now to >= T + d
\* has returned.
C2_FiredExactlyOnce ==
    \A h \in Handles :
        (hist[h].resets = 0 /\ hist[h].pos /\ fn[h] # "ctx") =>
            /\ hist[h].fires <= 1
            /\ now < trigger[h] => hist[h].fires = 0
            /\ (mux = 0 /\ hist[h].stopTrue = 0 /\ now >= trigger[h])
                    => hist[h].fires = 1

\* a hand-off handle fired once, its value still in the channel after a
\* later Advance
C2_Witness ==
    \E h \in Handles :
        /\ hist[h].resets = 0 /\ hist[h].pos /\ hist[h].stopTrue = 0
        /\ fn[h] = "nil"
        /\ hist[h].fires = 1
        /\ c[h] = <<trigger[h]>>
        /\ now > trigger[h]
        /\ mux = 0

\* C3: no operation waits while it holds the mutex: whoever holds it is not
\* inside fire()'s channel send with the buffer full.
C3_HolderNeverWaits ==
    \A p \in Procs :
        mux = p => ~(pc[p].st = "send" /\ Len(c[pc[p].h]) >= ChanCap)

\* C4 as stated: Stop() returns true at most once per handle, and only
\* while the handle has never fired.
C4_StopTrueOncePerHandle ==
    [][\A h \in TimerIds :
        hist'[h].stopTrue > hist[h].stopTrue =>
            (hist[h].stopTrue = 0 /\ hist[h].fires = 0)]_vars

\* C4 as amended: between a scheduling of the handle (its creation or a
\* Reset) and the next Reset, Stop() returns true at most once, only as the
\* first Stop call and only if the handle has not fired since.
C4_StopTrueOncePerScheduling ==
    [][\A h \in TimerIds :
        hist'[h].stopTrue > hist[h].stopTrue =>
            /\ hist[h].stopTrueSince = 0
            /\ hist[h].firesSince = 0
            /\ hist[h].stops = 0]_vars

\* a handle stopped, reset and stopped again, both Stop calls returning true
C4_Witness ==
    \E h \in Handles :
        /\ hist[h].stopTrue = 2
        /\ hist[h].stopTrueSince = 1
        /\ hist[h].resets = 1

\* C5: a Stop() on a handle that has been stopped since its latest
\* scheduling returns false and leaves the registry and now as they were.
C5_StopIdempotent ==
    [][\A t \in Threads, h \in TimerIds :
        (hist[h].stops >= 1 /\ Stop(t, h)) =>
            /\ hist'[h].stopTrue = hist[h].stopTrue
            /\ pendingTimers' = pendingTimers
            /\ now' = now]_vars

\* a handle stopped twice, the first call having returned true
C5_Witness ==
    \E h \in Handles :
        /\ hist[h].stops = 2
        /\ hist[h].stopTrueSince = 1

\* C6: for a handle created pending and never reset, a fire and a true
\* Stop() never both happen, and once Stop() has been called and an Advance
\* that reached its trigger has returned, exactly one of them has.
C6_StopOrFire ==
    \A h \in Handles :
        (hist[h].resets = 0 /\ hist[h].pos /\ fn[h] # "ctx") =>
            /\ hist[h].fires + hist[h].stopTrue <= 1
            /\ (hist[h].stops >= 1 /\ mux = 0 /\ now >= trigger[h])
                    => hist[h].fires + hist[h].stopTrue = 1

\* both outcomes side by side: one handle stopped before its trigger was
\* reached, the other fired before it was stopped
C6_Witness ==
    \E g, h \in Handles :
        /\ hist[g].resets = 0 /\ hist[g].pos
        /\ hist[h].resets = 0 /\ hist[h].pos
        /\ hist[g].stopTrue = 1 /\ hist[g].fires = 0 /\ now >= trigger[g]
        /\ hist[h].fires = 1 /\ hist[h].stops >= 1 /\ hist[h].stopTrue = 0
        /\ mux = 0

\* C7: Reset(d) returns whether the handle was in the registry and sets its
\* trigger to now + d; for d > 0 the handle is then not fired while
\* now < T + d, at most once, and, unless a Stop removed it, exactly once
\* whenever an Advance that brought now to >= T + d has returned.
C7_ResetReschedules ==
    /\ [][\A t \in Threads, h \in TimerIds, d \in Durations :
            (hist'[h].resets > hist[h].resets /\ Reset(t, h, d)) =>
                /\ hist'[h].ret = (h \in Members(pendingTimers))
                /\ trigger'[h] = now + d]_vars
    /\ [](\A h \in Handles :
            (hist[h].resets >= 1 /\ hist[h].pos) =>
                /\ hist[h].firesSince <= 1
                /\ now < trigger[h] => hist[h].firesSince = 0
                /\ (mux = 0 /\ hist[h].stopTrueSince = 0 /\ now >= trigger[h])
                        => hist[h].firesSince = 1)

\* a handle reset while pending that has fired at its new trigger
C7_Witness ==
    \E h \in Handles :
        /\ hist[h].resets = 1 /\ hist[h].pos /\ hist[h].ret
        /\ hist[h].firesSince = 1
        /\ hist[h].fires = 1
        /\ now = trigger[h]
        /\ mux = 0

\* C8: a hand-off handle reset with d > 0 while its channel was empty has
\* an empty channel as long as now is before its new trigger.
C8_NoStaleValue ==
    \A h \in Handles :
        (/\ fn[h] = "nil"
         /\ hist[h].resets >= 1
         /\ hist[h].pos
         /\ hist[h].emptyAtSched
         /\ now < trigger[h]) => c[h] = <<>>

\* a hand-off handle that fired, was drained and then reset, after a later
\* Advance that stayed short of the new trigger
C8_Witness ==
    \E h \in Handles :
        /\ fn[h] = "nil"
        /\ hist[h].resets = 1 /\ hist[h].pos /\ hist[h].emptyAtSched
        /\ hist[h].fires = 1 /\ hist[h].firesSince = 0
        /\ now = trigger[h] - 1
        /\ c[h] = <<>>

\* C9: Advance(d) with d < 0 panics, leaving now, the registry, the
\* channels, the dispatched callbacks and every handle as they were, and
\* the mutex free.
C9_NegativeAdvancePanics ==
    [][\A t \in Threads, d \in Durations :
        (d < 0 /\ Advance(t, d)) =>
            /\ panicked'
            /\ now' = now
            /\ pendingTimers' = pendingTimers
            /\ trigger' = trigger
            /\ c' = c
            /\ spawned' = spawned
            /\ hist' = hist
            /\ mux' = 0]_vars

\* a panic with a handle pending, which a later Advance has fired
C9_Witness ==
    /\ panicked
    /\ mux = 0
    /\ \E h \in Handles : hist[h].pos /\ hist[h].fires = 1 /\ now = MaxNow

\* C10: a deadline context resolves at most once, first writer wins: done
\* is closed at most once and only with the error stored, Err() is nil
\* while no error is stored, and once Err() is not nil it never changes.
C10_ResolvesOnce ==
    /\ [](\A k \in CtxIds :
            /\ ctx[k].closes <= 1
            /\ ctx[k].done <=> ctx[k].closes = 1
            /\ ctx[k].err = "nil" => Err(k) = "nil"
            /\ ctx[k].done => ctx[k].err # "nil")
    /\ [][\A k \in CtxIds : Err(k) # "nil" => Err(k)' = Err(k)]_vars

\* a context cancelled after its timer had fired: the callback lost the
\* race, and the watcher has seen the context done
C10_Witness ==
    \E k \in 1..nctx :
        /\ Err(k) = "Canceled"
        /\ ctx[k].cb = "exit"
        /\ pc[Watcher(k)].st = "exit"

\* C11: WithTimeout(parent, d) with d <= 0 returns, whatever the state of the
\* parent, a context whose Err() is already DeadlineExceeded; the call
\* creates no handle and leaves the registry alone, and every call of the
\* cancel function it returned leaves Err() and the registry as they were.
C11_PastDeadlineResolvedAtOnce ==
    /\ [][\A t \in Threads, pa \in Parents, d \in Durations, k \in CtxIds :
            (d <= 0 /\ k = nctx + 1 /\ nctx' = k /\ WithTimeout(t, pa, d)) =>
                /\ Err(k)' = "DeadlineExceeded"
                /\ ctx'[k].timer = 0
                /\ nextID' = nextID
                /\ pendingTimers' = pendingTimers
                /\ pc'[Watcher(k)].op = "idle"]_vars
    /\ [][\A t \in Threads, k \in CtxIds :
            (ctx'[k].cancels > ctx[k].cancels /\ CancelResolved(t, k)) =>
                /\ Err(k)' = Err(k)
                /\ pendingTimers' = pendingTimers]_vars
    /\ [][\A k \in 1..nctx :
            (ctx[k].timer = 0 /\ Err(k) = "DeadlineExceeded") =>
                Err(k)' = "DeadlineExceeded"]_vars

\* a context made with d <= 0 under a parent that was already cancelled,
\* after a call of its cancel function and a later Advance
C11_Witness ==
    \E k \in 1..nctx :
        /\ ctx[k].timer = 0
        /\ ctx[k].deadline < 0
        /\ ParentErr(ctx[k].parent) = "Canceled"
        /\ ctx[k].cancels >= 1
        /\ now > 0
        /\ Err(k) = "DeadlineExceeded"

\* C12: WithTimeout(parent, d) with d > 0 and a parent whose Done() is
\* already closed returns a context whose Err() is the parent's Err(); the
\* call creates no handle and leaves the registry alone, and no later step
\* (Advance, the cancel function, the parent) changes its Err().
C12_ResolvedParentInherited ==
    /\ [][\A t \in Threads, pa \in Parents, d \in Durations, k \in CtxIds :
            (/\ d > 0 /\ ParentDone(pa)
             /\ k = nctx + 1 /\ nctx' = k
             /\ WithTimeout(t, pa, d)) =>
                /\ Err(k)' = ParentErr(pa)
                /\ Err(k)' # "nil"
                /\ ctx'[k].timer = 0
                /\ nextID' = nextID
                /\ pendingTimers' = pendingTimers
                /\ pc'[Watcher(k)].op = "idle"]_vars
    /\ [][\A k \in 1..nctx : ctx[k].timer = 0 => Err(k)' = Err(k)]_vars

\* a context made under a cancelled parent (only that path stores Canceled
\* in a context without a handle), after a call of its cancel function and
\* an Advance beyond its deadline
C12_Witness ==
    \E k \in 1..nctx :
        /\ ctx[k].timer = 0
        /\ ctx[k].deadline > 0
        /\ ctx[k].parent = StdCancel
        /\ Err(k) = "Canceled"
        /\ ctx[k].cancels >= 1
        /\ now > ctx[k].deadline
        /\ nextID = 0

\* C13: a context made with d > 0 under a pending parent, whose parent
\* resolved while now was before the context's deadline (so the parent was
\* resolved by the time the internal handle could fire), never has
\* Err() = DeadlineExceeded, whatever the order of the watcher's steps and
\* the later Advance calls.
C13_ParentFirstNeverExceeded ==
    \A k \in 1..nctx :
        (ctx[k].timer # 0 /\ ctx[k].pfirst) => Err(k) # "DeadlineExceeded"

C15_CancelLeavesCanceled ==
    [][\A t \in Threads, k \in CtxIds :
        (pc[t].op = "cancel" /\ pc[t].cx = k) =>
            /\ (pc[t].pend /\ pc'[t].op = "idle") =>
                    /\ Err(k)' = "Canceled"
                    /\ ~Contains(trigger', pendingTimers', ctx[k].timer)
            /\ ~pc[t].pend => Err(k)' = Err(k)]_vars

\* C16: Deadline() of the context WithTimeout(parent, d) makes at now = T
\* reports ok = true with the earlier of T + d and the parent's deadline when
\* the parent has one, and T + d when it has none; the report never changes.
C16_DeadlineIsEarlier ==
    /\ [][\A t \in Threads, pa \in Parents, d \in Durations, k \in CtxIds :
            (k = nctx + 1 /\ nctx' = k /\ WithTimeout(t, pa, d)) =>
                /\ Deadline(k)'.ok
                /\ Deadline(k)'.deadline =
                        IF /\ ParentDeadline(pa).ok
                           /\ ParentDeadline(pa).deadline < now + d
                        THEN ParentDeadline(pa).deadline
                        ELSE now + d]_vars
    /\ [][\A k \in 1..nctx : Deadline(k)' = Deadline(k)]_vars

\* a context whose parent's deadline is the earlier one, after an Advance
C16_Witness ==
    \E k \in 1..nctx :
        /\ ctx[k].parent = StdDeadline(1)
        /\ ctx[k].deadline > 1
        /\ Deadline(k) = [deadline |-> 1, ok |-> TRUE]
        /\ now > ctx[k].deadline

\* C17: whenever the mutex is free, the registry holds exactly the handles
\* that have been created and, since their latest scheduling (creation or
\* Reset), have neither fired nor been stopped; it holds each of them once,
\* and each has its trigger strictly after now.
C17_RegistryExact ==
    mux = 0 =>
        /\ \A h \in TimerIds :
                h \in Members(pendingTimers) <=>
                    /\ Created(h)
                    /\ hist[h].firesSince = 0
                    /\ hist[h].stops = 0
        /\ Cardinality(Members(pendingTimers)) = Len(pendingTimers)
        /\ \A h \in Members(pendingTimers) : After(trigger[h], now)

\* a handle stopped and then rescheduled by Reset is registered, another
\* one has fired and is not, and time has moved
C17_Witness ==
    \E h, g \in Handles :
        /\ h # g
        /\ h \in Members(pendingTimers)
        /\ hist[h].resets = 1 /\ hist[h].stopTrue = 1
        /\ g \notin Members(pendingTimers)
        /\ hist[g].firesSince = 1 /\ hist[g].pos
        /\ mux = 0
        /\ now > 0

\* C18: a NewTimer, AfterFunc or Reset call whose trigger now + d is not
\* after now (d <= 0) calls fire() on the handle inside the call and does
\* not insert it; with d > 0 it inserts the handle and fires nothing.
C18_DueFiresInsteadOfInsert ==
    [][\A t \in Threads, d \in Durations, h \in TimerIds :
        (\/ h = nextID + 1 /\ nextID' = h /\ NewTimer(t, d)
         \/ h = nextID + 1 /\ nextID' = h /\ AfterFunc(t, d)
         \/ hist'[h].resets > hist[h].resets /\ Reset(t, h, d)) =>
            /\ trigger'[h] = now + d
            /\ IF d <= 0
               THEN /\ fired' = <<h>>
                    /\ hist'[h].firesSince = 1
                    /\ h \notin Members(pendingTimers')
                    /\ Members(pendingTimers') = Members(pendingTimers) \ {h}
               ELSE /\ fired' = <<>>
                    /\ hist'[h].firesSince = 0
                    /\ Members(pendingTimers') = Members(pendingTimers) \cup {h}]_vars

\* a handle pending in the registry was reset with d <= 0: it has fired once,
\* inside Reset, and is registered no more
C18_Witness ==
    \E h \in Handles :
        /\ hist[h].resets = 1
        /\ hist[h].ret
        /\ ~hist[h].pos
        /\ hist[h].fires = 1
        /\ fired = <<h>>
        /\ h \notin Members(pendingTimers)

C20_OnlyAdvanceMovesNow ==
    [][/\ Now' >= Now
       /\ Now' # Now =>
            \E t \in Threads, d \in Durations :
                d > 0 /\ Now' = Now + d /\ Advance(t, d)
       /\ \A t \in Threads, d \in Durations :
            (d >= 0 /\ Now' # Now + d) => ~Advance(t, d)]_vars

\* time has been advanced to the bound in more than one step, around a
\* Reset, a Stop and the firing of a handle
C20_Witness ==
    /\ Now = MaxNow
    /\ \E h, g \in Handles :
        /\ hist[h].resets = 1 /\ hist[h].fires >= 1
        /\ 0 < trigger[h] /\ trigger[h] < MaxNow
        /\ hist[g].stops >= 1

====
